---- MODULE Spec2Model ----
(***************************************************************************)
(* Event-notification core of the YeeLoong laptop platform driver          *)
(* (drivers/platform/mips/yeeloong_laptop.c): the SCI interrupt routine,   *)
(* the per-event dispatch of do_event_action, the stateful handlers and    *)
(* the key/switch reporting.                                               *)
(*                                                                         *)
(* One invocation of sci_irq_handler is one step of the model.  What the   *)
(* hardware answers during the invocation (the irq number, the result of   *)
(* the event-number query, the event number, the EC register contents) is  *)
(* drawn from small sets.  Every call the invocation makes to the EC, the  *)
(* display sequencer, the input layer and the power-supply layer is        *)
(* appended, in program order, to the trace of the invocation.             *)
(*                                                                         *)
(* Spec, SpecIncreasing, SpecContract and SpecResume start where           *)
(* yeeloong_init has returned 0: the SCI interrupt is requested, the input *)
(* device is registered with its keymap and yeeloong_bat_init has set      *)
(* ac_bat_initialized.  SpecLifecycle starts before yeeloong_init and      *)
(* follows the load, the delivery of the interrupts and the suspend and    *)
(* resume of the driver, with sci_irq_init run statement by statement on   *)
(* resume.                                                                 *)
(***************************************************************************)
EXTENDS Integers, Sequences, FiniteSets, TLC

(***************************************************************************)
(* Bounds of the model.                                                    *)
(***************************************************************************)
\* EC status registers answer 0..MaxSample
MaxSample == 2
\* number of CRT-detected video-toggle events that are counted
MaxToggles == 5
\* REG_CAMERA_CONTROL holds 0..MaxCameraControl at load in SpecContract
MaxCameraControl == 7
\* the low bits of the sequencer registers hold 0..MaxSequencerLow in SpecVo
MaxSequencerLow == 7

(***************************************************************************)
(* Constants of ec_kb3310b.h (included at line 31, not part of src/).      *)
(***************************************************************************)
SCI_IRQ_NUM == 10
EVENT_LID == 35
EVENT_SWITCHVIDEOMODE == 36
EVENT_SLEEP == 37
EVENT_OVERTEMP == 38
EVENT_CRT_DETECT == 39
EVENT_CAMERA == 40
EVENT_USB_OC2 == 41
EVENT_USB_OC0 == 42
EVENT_DISPLAY_TOGGLE == 43
EVENT_AUDIO_MUTE == 44
EVENT_DISPLAY_BRIGHTNESS == 45
EVENT_AC_BAT == 46
EVENT_AUDIO_VOLUME == 47
EVENT_WLAN == 48
EVENT_END == 49
EVENT_START == EVENT_LID

\* errno values (include/uapi/asm-generic/errno-base.h, not part of src/)
ENOMEM == 12
EFAULT == 14
ENODEV == 19

ON == 1
OFF == 0
LCD == 0
CRT == 1

(***************************************************************************)
(* Bytes and bit operations on them.                                       *)
(***************************************************************************)
RECURSIVE BitOr(_, _)
BitOr(a, b) ==
    IF a = 0 THEN b
    ELSE IF b = 0 THEN a
    ELSE (IF (a % 2 = 1) \/ (b % 2 = 1) THEN 1 ELSE 0) + 2 * BitOr(a \div 2, b \div 2)

Bit(v, n) == (v \div (2 ^ n)) % 2

set_bit(n, v) == IF Bit(v, n) = 1 THEN v ELSE v + 2 ^ n

clear_bit(n, v) == IF Bit(v, n) = 1 THEN v - 2 ^ n ELSE v

(***************************************************************************)
(* Strings are sequences of character codes, without the terminating NUL.  *)
(***************************************************************************)
CharAt(s, i) == IF i <= Len(s) THEN s[i] ELSE 0

tolower(c) == IF c >= 65 /\ c <= 90 THEN c + 32 ELSE c

\* strncasecmp(s1, s2, len), started at character i with len characters left
RECURSIVE strncasecmp_from(_, _, _, _)
strncasecmp_from(s1, s2, i, len) ==
    IF len = 0 THEN 0
    ELSE LET c1 == CharAt(s1, i)
             c2 == CharAt(s2, i)
         IN  IF c1 = 0 \/ c2 = 0 THEN c1 - c2
             ELSE IF c1 = c2 THEN strncasecmp_from(s1, s2, i + 1, len - 1)
             ELSE IF tolower(c1) # tolower(c2) THEN tolower(c1) - tolower(c2)
             ELSE strncasecmp_from(s1, s2, i + 1, len - 1)

strncasecmp(s1, s2, len) == strncasecmp_from(s1, s2, 1, len)

\* "EC_VER=PQ1D2", as written in the source and in lower case
VerStemUpper == <<69, 67, 95, 86, 69, 82, 61, 80, 81, 49, 68, 50>>
VerStemLower == <<101, 99, 95, 118, 101, 114, 61, 112, 113, 49, 100, 50>>

\* "EC_VER=PQ1D26"
EC_VER_PQ1D26 == VerStemUpper \o <<54>>

\* variant: a version equal to the threshold counts as before it
ec_version_before_orequal(ver, version) == strncasecmp(ver, version, 64) <= 0

ec_version_before(ver, version) == strncasecmp(ver, version, 64) < 0

(***************************************************************************)
(* The driver state threaded through one invocation.  m is a record:       *)
(*   old_brightness_status, old_volume_status  statics of                  *)
(*                                        get_event_key_entry              *)
(*   video_output_status                  static of switchvideomode_handler*)
(*   camera_control                       EC register REG_CAMERA_CONTROL   *)
(*   sr31, sr21                           display sequencer registers      *)
(*   ac_bat_initialized                   driver global                    *)
(*   hw                                   what the hardware answers during *)
(*                                        this invocation, and the version *)
(*                                        string ec_kb3310b_ver it finds   *)
(*   trace                                the calls made so far            *)
(***************************************************************************)
Call(op, arg, val) == [op |-> op, arg |-> arg, val |-> val]

Log(m, op, arg, val) == [m EXCEPT !.trace = Append(@, Call(op, arg, val))]

\* the value ec_read(reg) returns
ec_read_value(reg, m) ==
    IF reg = "REG_CAMERA_CONTROL" THEN m.camera_control
    ELSE IF reg = "REG_CRT_DETECT" THEN m.hw.crt
    ELSE m.hw.val

\* the state after ec_read(reg)
ec_read(reg, m) == Log(m, "ec_read", reg, ec_read_value(reg, m))

\* the state after ec_write(reg, val); the driver writes REG_CAMERA_CONTROL only
ec_write(reg, val, m) ==
    Log(IF reg = "REG_CAMERA_CONTROL" THEN [m EXCEPT !.camera_control = val] ELSE m,
        "ec_write", reg, val)

display_vo_set(display, on, m) ==
    LET value == IF display = LCD THEN m.sr31 ELSE m.sr21
        new   == IF display = LCD
                 THEN BitOr(value, IF on # 0 THEN 3 ELSE 2)
                 ELSE IF on # 0 THEN clear_bit(7, value) ELSE set_bit(7, value)
        m1    == IF display = LCD THEN [m EXCEPT !.sr31 = new]
                                  ELSE [m EXCEPT !.sr21 = new]
    IN  Log(m1, "display_vo_set", IF display = LCD THEN "LCD" ELSE "CRT", on)

yeeloong_vo_set(lcd_status, crt_status, m) ==
    display_vo_set(CRT, crt_status, display_vo_set(LCD, lcd_status, m))

(***************************************************************************)
(* The keymap and the input layer.                                         *)
(***************************************************************************)
KeyEntry(type, code, keycode) == [type |-> type, code |-> code, keycode |-> keycode]

yeeloong_keymap ==
    << KeyEntry("KE_SW",  EVENT_LID, "SW_LID"),
       KeyEntry("KE_KEY", EVENT_CAMERA, "KEY_CAMERA"),
       KeyEntry("KE_KEY", EVENT_SLEEP, "KEY_SLEEP"),
       KeyEntry("KE_KEY", EVENT_DISPLAY_TOGGLE, "KEY_DISPLAYTOGGLE"),
       KeyEntry("KE_KEY", EVENT_SWITCHVIDEOMODE, "KEY_SWITCHVIDEOMODE"),
       KeyEntry("KE_KEY", EVENT_AUDIO_MUTE, "KEY_MUTE"),
       KeyEntry("KE_KEY", EVENT_WLAN, "KEY_WLAN"),
       KeyEntry("KE_KEY", EVENT_DISPLAY_BRIGHTNESS, "KEY_BRIGHTNESSUP"),
       KeyEntry("KE_KEY", EVENT_DISPLAY_BRIGHTNESS, "KEY_BRIGHTNESSDOWN"),
       KeyEntry("KE_KEY", EVENT_AUDIO_VOLUME, "KEY_VOLUMEUP"),
       KeyEntry("KE_KEY", EVENT_AUDIO_VOLUME, "KEY_VOLUMEDOWN"),
       KeyEntry("KE_END", 0, "") >>

\* index of the first entry before KE_END whose code is the scancode, 0 for NULL
RECURSIVE sparse_keymap_entry_from(_, _)
sparse_keymap_entry_from(code, i) ==
    IF i > Len(yeeloong_keymap) \/ yeeloong_keymap[i].type = "KE_END" THEN 0
    ELSE IF yeeloong_keymap[i].code = code THEN i
    ELSE sparse_keymap_entry_from(code, i + 1)

sparse_keymap_entry_from_scancode(code) == sparse_keymap_entry_from(code, 1)

\* sparse_keymap_report_entry(dev, ke, 1, true) for the entry at index ke
sparse_keymap_report_entry(ke, m) ==
    LET e == yeeloong_keymap[ke]
    IN  IF e.type = "KE_KEY"
        THEN Log(Log(Log(Log(m, "input_report_key", e.keycode, 1),
                         "input_sync", "", 0),
                     "input_report_key", e.keycode, 0),
                 "input_sync", "", 0)
        ELSE IF e.type = "KE_SW"
        THEN Log(Log(m, "input_report_switch", e.keycode, 0), "input_sync", "", 0)
        ELSE m

\* C's !status
LogicalNot(status) == IF status = 0 THEN 1 ELSE 0

\* variant: the raw register value is reported as it is
report_lid_switch_raw(status, m) ==
    Log(Log(m, "input_report_switch", "SW_LID", IF status = 0 THEN 0 ELSE 1),
        "input_sync", "", 0)

report_lid_switch(status, m) ==
    Log(Log(m, "input_report_switch", "SW_LID", LogicalNot(status)),
        "input_sync", "", 0)

\* variant: a sample of 0 is not taken as a decrease
get_event_key_entry_nozero(event, status, m) ==
    LET ke == sparse_keymap_entry_from_scancode(event)
    IN  IF ke = 0 THEN [ke |-> 0, m |-> m]
        ELSE IF event = EVENT_DISPLAY_BRIGHTNESS
        THEN [ke |-> IF status < m.old_brightness_status THEN ke + 1 ELSE ke,
              m  |-> [m EXCEPT !.old_brightness_status = status]]
        ELSE IF event = EVENT_AUDIO_VOLUME
        THEN [ke |-> IF status < m.old_volume_status THEN ke + 1 ELSE ke,
              m  |-> [m EXCEPT !.old_volume_status = status]]
        ELSE [ke |-> ke, m |-> m]

\* variant: each axis is compared with the stored sample of the other axis
get_event_key_entry_crossed(event, status, m) ==
    LET ke == sparse_keymap_entry_from_scancode(event)
    IN  IF ke = 0 THEN [ke |-> 0, m |-> m]
        ELSE IF event = EVENT_DISPLAY_BRIGHTNESS
        THEN [ke |-> IF status = 0 \/ status < m.old_volume_status
                     THEN ke + 1 ELSE ke,
              m  |-> [m EXCEPT !.old_brightness_status = status]]
        ELSE IF event = EVENT_AUDIO_VOLUME
        THEN [ke |-> IF status = 0 \/ status < m.old_brightness_status
                     THEN ke + 1 ELSE ke,
              m  |-> [m EXCEPT !.old_volume_status = status]]
        ELSE [ke |-> ke, m |-> m]

\* variant: a volume event stores its sample in old_brightness_status too
get_event_key_entry_shared(event, status, m) ==
    LET ke == sparse_keymap_entry_from_scancode(event)
    IN  IF ke = 0 THEN [ke |-> 0, m |-> m]
        ELSE IF event = EVENT_DISPLAY_BRIGHTNESS
        THEN [ke |-> IF status = 0 \/ status < m.old_brightness_status
                     THEN ke + 1 ELSE ke,
              m  |-> [m EXCEPT !.old_brightness_status = status]]
        ELSE IF event = EVENT_AUDIO_VOLUME
        THEN [ke |-> IF status = 0 \/ status < m.old_volume_status
                     THEN ke + 1 ELSE ke,
              m  |-> [m EXCEPT !.old_volume_status = status,
                               !.old_brightness_status = status]]
        ELSE [ke |-> ke, m |-> m]

\* [ke |-> index of the entry returned (0 for NULL), m |-> the state afterwards]
get_event_key_entry(event, status, m) ==
    LET ke == sparse_keymap_entry_from_scancode(event)
    IN  IF ke = 0 THEN [ke |-> 0, m |-> m]
        ELSE IF event = EVENT_DISPLAY_BRIGHTNESS
        THEN [ke |-> IF status = 0 \/ status < m.old_brightness_status
                     THEN ke + 1 ELSE ke,
              m  |-> [m EXCEPT !.old_brightness_status = status]]
        ELSE IF event = EVENT_AUDIO_VOLUME
        THEN [ke |-> IF status = 0 \/ status < m.old_volume_status
                     THEN ke + 1 ELSE ke,
              m  |-> [m EXCEPT !.old_volume_status = status]]
        ELSE [ke |-> ke, m |-> m]

(***************************************************************************)
(* The event handlers.  Each yields [status |-> the value returned,        *)
(* m |-> the state afterwards].                                            *)
(***************************************************************************)
Ret(status, m) == [status |-> status, m |-> m]

crt_detect_handler(status, m) ==
    IF status # 0 THEN Ret(status, yeeloong_vo_set(ON, ON, m))
                  ELSE Ret(status, yeeloong_vo_set(ON, OFF, m))

displaytoggle_handler(status, m) ==
    IF ec_version_before(m.hw.ver, EC_VER_PQ1D26)
    THEN Ret(status, display_vo_set(LCD, status, m))
    ELSE Ret(status, m)

\* variant: the position advances before the CRT is looked at
switchvideomode_handler_early(status, m) ==
    LET m1  == ec_read("REG_CRT_DETECT", m)
        inc == m1.video_output_status + 1
        vos == IF inc > 4 THEN 1 ELSE inc
        m2  == [m1 EXCEPT !.video_output_status = vos]
    IN  IF ec_read_value("REG_CRT_DETECT", m) = OFF
        THEN Ret(0, m2)
        ELSE Ret(vos,
                 CASE vos = 1 -> yeeloong_vo_set(ON, ON, m2)
                   [] vos = 2 -> yeeloong_vo_set(OFF, ON, m2)
                   [] vos = 3 -> yeeloong_vo_set(OFF, OFF, m2)
                   [] vos = 4 -> yeeloong_vo_set(ON, OFF, m2)
                   [] OTHER   -> display_vo_set(LCD, ON, m2))

\* variant: the position wraps after 3
switchvideomode_handler_wrap3(status, m) ==
    LET m1  == ec_read("REG_CRT_DETECT", m)
        inc == m1.video_output_status + 1
        vos == IF inc > 3 THEN 1 ELSE inc
        m2  == [m1 EXCEPT !.video_output_status = vos]
    IN  IF ec_read_value("REG_CRT_DETECT", m) = OFF
        THEN Ret(0, m1)
        ELSE Ret(vos,
                 CASE vos = 1 -> yeeloong_vo_set(ON, ON, m2)
                   [] vos = 2 -> yeeloong_vo_set(OFF, ON, m2)
                   [] vos = 3 -> yeeloong_vo_set(OFF, OFF, m2)
                   [] vos = 4 -> yeeloong_vo_set(ON, OFF, m2)
                   [] OTHER   -> display_vo_set(LCD, ON, m2))

\* variant: the position wraps to 0 after 4
switchvideomode_handler_wrap0(status, m) ==
    LET m1  == ec_read("REG_CRT_DETECT", m)
        inc == m1.video_output_status + 1
        vos == IF inc > 4 THEN 0 ELSE inc
        m2  == [m1 EXCEPT !.video_output_status = vos]
    IN  IF ec_read_value("REG_CRT_DETECT", m) = OFF
        THEN Ret(0, m1)
        ELSE Ret(vos,
                 CASE vos = 1 -> yeeloong_vo_set(ON, ON, m2)
                   [] vos = 2 -> yeeloong_vo_set(OFF, ON, m2)
                   [] vos = 3 -> yeeloong_vo_set(OFF, OFF, m2)
                   [] vos = 4 -> yeeloong_vo_set(ON, OFF, m2)
                   [] OTHER   -> display_vo_set(LCD, ON, m2))

switchvideomode_handler(status, m) ==
    LET m1  == ec_read("REG_CRT_DETECT", m)
        inc == m1.video_output_status + 1
        vos == IF inc > 4 THEN 1 ELSE inc
        m2  == [m1 EXCEPT !.video_output_status = vos]
    IN  IF ec_read_value("REG_CRT_DETECT", m) = OFF
        THEN Ret(0, m1)
        ELSE Ret(vos,
                 CASE vos = 1 -> yeeloong_vo_set(ON, ON, m2)
                   [] vos = 2 -> yeeloong_vo_set(OFF, ON, m2)
                   [] vos = 3 -> yeeloong_vo_set(OFF, OFF, m2)
                   [] vos = 4 -> yeeloong_vo_set(ON, OFF, m2)
                   [] OTHER   -> display_vo_set(LCD, ON, m2))

\* variant: the register is written with bit 1 alone, the value read is dropped
camera_handler_clobber(status, m) ==
    LET value == ec_read_value("REG_CAMERA_CONTROL", m)
    IN  Ret(status,
            ec_write("REG_CAMERA_CONTROL", 2,
                     ec_read("REG_CAMERA_CONTROL", m)))

camera_handler(status, m) ==
    LET value == ec_read_value("REG_CAMERA_CONTROL", m)
    IN  Ret(status,
            ec_write("REG_CAMERA_CONTROL", BitOr(value, 2),
                     ec_read("REG_CAMERA_CONTROL", m)))

usb2_handler(status, m) == Ret(status, Log(m, "pr_emerg", "USB2", 0))

usb0_handler(status, m) == Ret(status, Log(m, "pr_emerg", "USB0", 0))

\* variant: the power supplies are notified without the test of
\* ac_bat_initialized
ac_bat_handler_unguarded(status, m) ==
    Ret(status, Log(Log(m, "power_supply_changed", "yeeloong_ac", 0),
                    "power_supply_changed", "yeeloong_bat", 0))

ac_bat_handler(status, m) ==
    IF m.ac_bat_initialized # 0
    THEN Ret(status, Log(Log(m, "power_supply_changed", "yeeloong_ac", 0),
                         "power_supply_changed", "yeeloong_bat", 0))
    ELSE Ret(status, m)

(***************************************************************************)
(* do_event_action: the binding of an event, the register read, the        *)
(* handler call and the report to the input layer.                         *)
(***************************************************************************)
\* the register bound to the event, "" for reg = 0
EventReg(event) ==
    CASE event = EVENT_LID                -> "REG_LID_DETECT"
      [] event = EVENT_CRT_DETECT         -> "REG_CRT_DETECT"
      [] event = EVENT_CAMERA             -> "REG_CAMERA_STATUS"
      [] event = EVENT_USB_OC2            -> "REG_USB2_FLAG"
      [] event = EVENT_USB_OC0            -> "REG_USB0_FLAG"
      [] event = EVENT_DISPLAY_TOGGLE     -> "REG_DISPLAY_LCD"
      [] event = EVENT_AUDIO_MUTE         -> "REG_AUDIO_MUTE"
      [] event = EVENT_DISPLAY_BRIGHTNESS -> "REG_DISPLAY_BRIGHTNESS"
      [] event = EVENT_AUDIO_VOLUME       -> "REG_AUDIO_VOLUME"
      [] OTHER                            -> ""

\* the handler bound to the event, "" for handler = NULL
EventHandler(event) ==
    CASE event = EVENT_SWITCHVIDEOMODE -> "switchvideomode_handler"
      [] event = EVENT_CRT_DETECT      -> "crt_detect_handler"
      [] event = EVENT_CAMERA          -> "camera_handler"
      [] event = EVENT_USB_OC2         -> "usb2_handler"
      [] event = EVENT_USB_OC0         -> "usb0_handler"
      [] event = EVENT_DISPLAY_TOGGLE  -> "displaytoggle_handler"
      [] event = EVENT_AC_BAT          -> "ac_bat_handler"
      [] OTHER                         -> ""

CallHandler(handler, status, m) ==
    CASE handler = "switchvideomode_handler" -> switchvideomode_handler(status, m)
      [] handler = "crt_detect_handler"      -> crt_detect_handler(status, m)
      [] handler = "camera_handler"          -> camera_handler(status, m)
      [] handler = "usb2_handler"            -> usb2_handler(status, m)
      [] handler = "usb0_handler"            -> usb0_handler(status, m)
      [] handler = "displaytoggle_handler"   -> displaytoggle_handler(status, m)
      [] handler = "ac_bat_handler"          -> ac_bat_handler(status, m)

\* variant: the handler is given 0 in place of the value read
do_event_action_rawdropped(event, m) ==
    LET reg     == EventReg(event)
        handler == EventHandler(event)
        r1 == IF reg # "" THEN Ret(ec_read_value(reg, m), ec_read(reg, m))
                          ELSE Ret(0, m)
        r2 == IF handler # ""
              THEN CallHandler(handler, 0,
                               Log(r1.m, "handler", handler, 0))
              ELSE r1
        k  == get_event_key_entry(event, r2.status, r2.m)
    IN  IF k.ke # 0
        THEN IF yeeloong_keymap[k.ke].keycode = "SW_LID"
             THEN Ret(r2.status, report_lid_switch(r2.status, k.m))
             ELSE Ret(r2.status, sparse_keymap_report_entry(k.ke, k.m))
        ELSE Ret(r2.status, k.m)

\* variant: an event without keymap entry is reported as a lid switch
do_event_action_nonull(event, m) ==
    LET reg     == EventReg(event)
        handler == EventHandler(event)
        r1 == IF reg # "" THEN Ret(ec_read_value(reg, m), ec_read(reg, m))
                          ELSE Ret(0, m)
        r2 == IF handler # ""
              THEN CallHandler(handler, r1.status,
                               Log(r1.m, "handler", handler, r1.status))
              ELSE r1
        k  == get_event_key_entry(event, r2.status, r2.m)
    IN  IF k.ke # 0
        THEN IF yeeloong_keymap[k.ke].keycode = "SW_LID"
             THEN Ret(r2.status, report_lid_switch(r2.status, k.m))
             ELSE Ret(r2.status, sparse_keymap_report_entry(k.ke, k.m))
        ELSE Ret(r2.status, report_lid_switch(r2.status, k.m))

\* variant: the lid switch is also reported through the sparse keymap (the
\* else is missing)
do_event_action_noelse(event, m) ==
    LET reg     == EventReg(event)
        handler == EventHandler(event)
        r1 == IF reg # "" THEN Ret(ec_read_value(reg, m), ec_read(reg, m))
                          ELSE Ret(0, m)
        r2 == IF handler # ""
              THEN CallHandler(handler, r1.status,
                               Log(r1.m, "handler", handler, r1.status))
              ELSE r1
        k  == get_event_key_entry(event, r2.status, r2.m)
    IN  IF k.ke # 0
        THEN IF yeeloong_keymap[k.ke].keycode = "SW_LID"
             THEN Ret(r2.status,
                      sparse_keymap_report_entry(k.ke,
                          report_lid_switch(r2.status, k.m)))
             ELSE Ret(r2.status, sparse_keymap_report_entry(k.ke, k.m))
        ELSE Ret(r2.status, k.m)

\* variant: the key entry is reported only when the final status is not 0
do_event_action_onstatus(event, m) ==
    LET reg     == EventReg(event)
        handler == EventHandler(event)
        r1 == IF reg # "" THEN Ret(ec_read_value(reg, m), ec_read(reg, m))
                          ELSE Ret(0, m)
        r2 == IF handler # ""
              THEN CallHandler(handler, r1.status,
                               Log(r1.m, "handler", handler, r1.status))
              ELSE r1
        k  == get_event_key_entry(event, r2.status, r2.m)
    IN  IF k.ke # 0 /\ r2.status # 0
        THEN IF yeeloong_keymap[k.ke].keycode = "SW_LID"
             THEN Ret(r2.status, report_lid_switch(r2.status, k.m))
             ELSE Ret(r2.status, sparse_keymap_report_entry(k.ke, k.m))
        ELSE Ret(r2.status, k.m)

\* [status |-> the final status, m |-> the state afterwards]
do_event_action(event, m) ==
    LET reg     == EventReg(event)
        handler == EventHandler(event)
        r1 == IF reg # "" THEN Ret(ec_read_value(reg, m), ec_read(reg, m))
                          ELSE Ret(0, m)
        r2 == IF handler # ""
              THEN CallHandler(handler, r1.status,
                               Log(r1.m, "handler", handler, r1.status))
              ELSE r1
        k  == get_event_key_entry(event, r2.status, r2.m)
    IN  IF k.ke # 0
        THEN IF yeeloong_keymap[k.ke].keycode = "SW_LID"
             THEN Ret(r2.status, report_lid_switch(r2.status, k.m))
             ELSE Ret(r2.status, sparse_keymap_report_entry(k.ke, k.m))
        ELSE Ret(r2.status, k.m)

(***************************************************************************)
(* sci_irq_handler.  [ret |-> IRQ_NONE or IRQ_HANDLED, event |-> the event *)
(* number read (-1 when none was read), status |-> the final status of the *)
(* dispatch (-1 without dispatch), m |-> the state afterwards].            *)
(***************************************************************************)
IrqRet(ret, event, status, m) ==
    [ret |-> ret, event |-> event, status |-> status, m |-> m]

\* variant: the event number is dispatched without the range check
sci_irq_handler_norange(irq, m) ==
    LET m1 == Log(m, "ec_query_event_num", "", m.hw.query)
        m2 == Log(m1, "ec_get_event_num", "", m.hw.event)
        d  == do_event_action(m.hw.event, Log(m2, "do_event_action", "", m.hw.event))
    IN  IF irq # SCI_IRQ_NUM THEN IrqRet("IRQ_NONE", -1, -1, m)
        ELSE IF m.hw.query < 0 THEN IrqRet("IRQ_NONE", -1, -1, m1)
        ELSE IrqRet("IRQ_HANDLED", m.hw.event, d.status, d.m)

\* variant: the irq number is not compared with SCI_IRQ_NUM
sci_irq_handler_noirq(irq, m) ==
    LET m1 == Log(m, "ec_query_event_num", "", m.hw.query)
        m2 == Log(m1, "ec_get_event_num", "", m.hw.event)
        d  == do_event_action(m.hw.event, Log(m2, "do_event_action", "", m.hw.event))
    IN  IF m.hw.query < 0 THEN IrqRet("IRQ_NONE", -1, -1, m1)
        ELSE IF m.hw.event < EVENT_START \/ m.hw.event > EVENT_END
        THEN IrqRet("IRQ_NONE", m.hw.event, -1, m2)
        ELSE IrqRet("IRQ_HANDLED", m.hw.event, d.status, d.m)

\* variant: a failed query is issued a second time before giving up
sci_irq_handler_retry(irq, m) ==
    LET m1 == Log(m, "ec_query_event_num", "", m.hw.query)
        m2 == Log(m1, "ec_get_event_num", "", m.hw.event)
        d  == do_event_action(m.hw.event, Log(m2, "do_event_action", "", m.hw.event))
    IN  IF irq # SCI_IRQ_NUM THEN IrqRet("IRQ_NONE", -1, -1, m)
        ELSE IF m.hw.query < 0
        THEN IrqRet("IRQ_NONE", -1, -1, Log(m1, "ec_query_event_num", "", m.hw.query))
        ELSE IF m.hw.event < EVENT_START \/ m.hw.event > EVENT_END
        THEN IrqRet("IRQ_NONE", m.hw.event, -1, m2)
        ELSE IrqRet("IRQ_HANDLED", m.hw.event, d.status, d.m)

\* variant: the upper limit of the range check excludes EVENT_END
sci_irq_handler_offbyone(irq, m) ==
    LET m1 == Log(m, "ec_query_event_num", "", m.hw.query)
        m2 == Log(m1, "ec_get_event_num", "", m.hw.event)
        d  == do_event_action(m.hw.event, Log(m2, "do_event_action", "", m.hw.event))
    IN  IF irq # SCI_IRQ_NUM THEN IrqRet("IRQ_NONE", -1, -1, m)
        ELSE IF m.hw.query < 0 THEN IrqRet("IRQ_NONE", -1, -1, m1)
        ELSE IF m.hw.event < EVENT_START \/ m.hw.event >= EVENT_END
        THEN IrqRet("IRQ_NONE", m.hw.event, -1, m2)
        ELSE IrqRet("IRQ_HANDLED", m.hw.event, d.status, d.m)

sci_irq_handler(irq, m) ==
    LET m1 == Log(m, "ec_query_event_num", "", m.hw.query)
        m2 == Log(m1, "ec_get_event_num", "", m.hw.event)
        d  == do_event_action(m.hw.event, Log(m2, "do_event_action", "", m.hw.event))
    IN  IF irq # SCI_IRQ_NUM THEN IrqRet("IRQ_NONE", -1, -1, m)
        ELSE IF m.hw.query < 0 THEN IrqRet("IRQ_NONE", -1, -1, m1)
        ELSE IF m.hw.event < EVENT_START \/ m.hw.event > EVENT_END
        THEN IrqRet("IRQ_NONE", m.hw.event, -1, m2)
        ELSE IrqRet("IRQ_HANDLED", m.hw.event, d.status, d.m)

(***************************************************************************)
(* sci_irq_init, statement by statement.  The thread that runs it is a     *)
(* record                                                                  *)
(*   pc        the index of the next statement, 0 when it has returned     *)
(*   lo        the local lo of the MSR accesses                            *)
(*   flags     what local_irq_save saved                                   *)
(*   ret       the value returned (-1: the query failed)                   *)
(*   query     what ec_query_event_num answers during this run             *)
(*   log       the statements executed during this run                     *)
(* and the machine it runs on is a record k of the thread (th), the state  *)
(* of the local interrupts (irqs_off) and the registers (msr, gpio).       *)
(***************************************************************************)
Stmt(op, arg) == [op |-> op, arg |-> arg]

\* variant: local_irq_save is called after the first MSR has been read
sci_irq_init_code_latesave ==
    << Stmt("_rdmsr", "DIVIL_LBAR_GPIO"),
       Stmt("ec_query_event_num", ""),
       Stmt("mdelay", ""),
       Stmt("_rdmsr", "0x80000024"),
       Stmt("local_irq_save", ""),
       Stmt("clear_bit_10", ""),
       Stmt("_wrmsr", "0x80000024"),
       Stmt("_rdmsr", "0x80000025"),
       Stmt("clear_bit_10", ""),
       Stmt("_wrmsr", "0x80000025"),
       Stmt("_rdmsr", "0x80000023"),
       Stmt("or_0x0a", ""),
       Stmt("_wrmsr", "0x80000023"),
       Stmt("local_irq_restore", ""),
       Stmt("outl", "0xA0"),
       Stmt("outl", "0xA4"),
       Stmt("outl", "0xB8"),
       Stmt("return", "") >>

sci_irq_init_code ==
    << Stmt("_rdmsr", "DIVIL_LBAR_GPIO"),
       Stmt("ec_query_event_num", ""),
       Stmt("mdelay", ""),
       Stmt("local_irq_save", ""),
       Stmt("_rdmsr", "0x80000024"),
       Stmt("clear_bit_10", ""),
       Stmt("_wrmsr", "0x80000024"),
       Stmt("_rdmsr", "0x80000025"),
       Stmt("clear_bit_10", ""),
       Stmt("_wrmsr", "0x80000025"),
       Stmt("_rdmsr", "0x80000023"),
       Stmt("or_0x0a", ""),
       Stmt("_wrmsr", "0x80000023"),
       Stmt("local_irq_restore", ""),
       Stmt("outl", "0xA0"),
       Stmt("outl", "0xA4"),
       Stmt("outl", "0xB8"),
       Stmt("return", "") >>

\* the thread at the entry of sci_irq_init, the EC answering the query with
\* query
Entered(query) ==
    [pc |-> 1, lo |-> 0, flags |-> FALSE, ret |-> 0, query |-> query,
     log |-> << >>]

\* the thread outside sci_irq_init: the locals are dead
Idle == [Entered(0) EXCEPT !.pc = 0]

\* one statement of sci_irq_init
sci_irq_init_step(k) ==
    LET st == sci_irq_init_code[k.th.pc]
        k1 == [k EXCEPT !.th.log = Append(@, st), !.th.pc = @ + 1]
    IN  CASE st.op = "_rdmsr" ->
               [k1 EXCEPT !.th.lo = k.msr[st.arg]]
          [] st.op = "ec_query_event_num" ->
               IF k.th.query # 0
               THEN [k1 EXCEPT !.th.ret = k.th.query, !.th.pc = 0]
               ELSE k1
          [] st.op = "local_irq_save" ->
               [k1 EXCEPT !.th.flags = k.irqs_off, !.irqs_off = TRUE]
          [] st.op = "clear_bit_10" ->
               [k1 EXCEPT !.th.lo = clear_bit(10, k.th.lo)]
          [] st.op = "or_0x0a" ->
               [k1 EXCEPT !.th.lo = BitOr(k.th.lo, 10)]
          [] st.op = "_wrmsr" ->
               [k1 EXCEPT !.msr[st.arg] = k.th.lo]
          [] st.op = "local_irq_restore" ->
               [k1 EXCEPT !.irqs_off = k.th.flags]
          [] st.op = "outl" ->
               [k1 EXCEPT !.gpio[st.arg] = 2048]
          [] st.op = "return" ->
               [k1 EXCEPT !.th.ret = 0, !.th.pc = 0]
          [] OTHER -> k1

\* sci_irq_init from the statement at pc to its return
RECURSIVE sci_irq_init_run(_)
sci_irq_init_run(k) ==
    IF k.th.pc = 0 THEN k ELSE sci_irq_init_run(sci_irq_init_step(k))

\* the whole of sci_irq_init
sci_irq_init(query, k) == sci_irq_init_run([k EXCEPT !.th = Entered(query)])

(***************************************************************************)
(* Load and unload of the hotkey subdriver.  k is extended by              *)
(*   sci                  the SCI interrupt line: requested, flags of the  *)
(*                        request, masked, running (handler invocations    *)
(*                        in progress)                                     *)
(*   yeeloong_hotkey_dev  "NULL", "allocated", "keymapped" (allocated and  *)
(*                        its keymap set up), "registered" or "freed" (a   *)
(*                        pointer to a device that was freed)              *)
(*   ac_bat_initialized   driver global                                    *)
(*   trace                the calls made so far                            *)
(* env names the first step of the load that fails ("none": no step fails) *)
(* and what ec_query_event_num answers.                                    *)
(***************************************************************************)
\* the statements of the last run of sci_irq_init, as calls
ThreadCalls(th) ==
    [i \in 1 .. Len(th.log) |->
        Call(th.log[i].op, th.log[i].arg,
             IF th.log[i].op = "ec_query_event_num" THEN th.query ELSE 0)]

wlan_set(status, m) == ec_write("REG_WLAN", IF status # 0 THEN 1 ELSE 0, m)

\* variant: the flags of the request are 0
sci_irq_flags_none == { }

\* the flags yeeloong_hotkey_init passes to request_threaded_irq
sci_irq_flags == {"IRQF_ONESHOT"}

free_irq(k) ==
    [Log(k, "free_irq", "SCI_IRQ_NUM", IF k.sci.requested THEN 1 ELSE 0)
       EXCEPT !.sci.requested = FALSE]

input_free_device(k) ==
    [Log(k, "input_free_device", k.yeeloong_hotkey_dev, 0)
       EXCEPT !.yeeloong_hotkey_dev = "freed"]

\* [ret |-> the value returned, k |-> the state afterwards]
KRet(ret, k) == [ret |-> ret, k |-> k]

\* variant: a failed flush query is ignored and the IRQ is requested
yeeloong_hotkey_init_noquerycheck(env, k) ==
    LET k1 == wlan_set(ON, k)
        a  == sci_irq_init(env.query, Log(k1, "sci_irq_init", "", 0))
        k2 == [a EXCEPT !.trace = @ \o ThreadCalls(a.th), !.th = Idle]
        k3 == [Log(k2, "request_threaded_irq", "SCI_IRQ_NUM", 0)
                 EXCEPT !.sci = [requested |-> TRUE, flags |-> sci_irq_flags,
                                 masked |-> FALSE, running |-> 0]]
        k4 == [Log(k3, "input_allocate_device", "", 0)
                 EXCEPT !.yeeloong_hotkey_dev = "allocated"]
        k5 == [Log(k4, "sparse_keymap_setup", "", 0)
                 EXCEPT !.yeeloong_hotkey_dev = "keymapped"]
        k6 == [Log(k5, "input_register_device", "", 0)
                 EXCEPT !.yeeloong_hotkey_dev = "registered"]
        k7 == Log(Log(k6, "input_report_switch", "SW_LID", LogicalNot(ON)),
                   "input_sync", "", 0)
    IN  IF env.fail = "request_threaded_irq"
        THEN KRet(-EFAULT, Log(k2, "request_threaded_irq", "SCI_IRQ_NUM", 0))
        ELSE IF env.fail = "input_allocate_device"
        THEN KRet(-ENOMEM, free_irq(Log(k3, "input_allocate_device", "", 0)))
        ELSE IF env.fail = "sparse_keymap_setup"
        THEN KRet(-ENOMEM,
                  input_free_device(Log(k4, "sparse_keymap_setup", "", 0)))
        ELSE IF env.fail = "input_register_device"
        THEN KRet(-ENOMEM,
                  input_free_device(Log(k5, "input_register_device", "", 0)))
        ELSE KRet(0, k7)

yeeloong_hotkey_init(env, k) ==
    LET k1 == wlan_set(ON, k)
        a  == sci_irq_init(env.query, Log(k1, "sci_irq_init", "", 0))
        k2 == [a EXCEPT !.trace = @ \o ThreadCalls(a.th), !.th = Idle]
        k3 == [Log(k2, "request_threaded_irq", "SCI_IRQ_NUM", 0)
                 EXCEPT !.sci = [requested |-> TRUE, flags |-> sci_irq_flags,
                                 masked |-> FALSE, running |-> 0]]
        k4 == [Log(k3, "input_allocate_device", "", 0)
                 EXCEPT !.yeeloong_hotkey_dev = "allocated"]
        k5 == [Log(k4, "sparse_keymap_setup", "", 0)
                 EXCEPT !.yeeloong_hotkey_dev = "keymapped"]
        k6 == [Log(k5, "input_register_device", "", 0)
                 EXCEPT !.yeeloong_hotkey_dev = "registered"]
        k7 == Log(Log(k6, "input_report_switch", "SW_LID", LogicalNot(ON)),
                   "input_sync", "", 0)
    IN  IF a.th.ret # 0
        THEN KRet(-EFAULT, k2)
        ELSE IF env.fail = "request_threaded_irq"
        THEN KRet(-EFAULT, Log(k2, "request_threaded_irq", "SCI_IRQ_NUM", 0))
        ELSE IF env.fail = "input_allocate_device"
        THEN KRet(-ENOMEM, free_irq(Log(k3, "input_allocate_device", "", 0)))
        ELSE IF env.fail = "sparse_keymap_setup"
        THEN KRet(-ENOMEM,
                  input_free_device(Log(k4, "sparse_keymap_setup", "", 0)))
        ELSE IF env.fail = "input_register_device"
        THEN KRet(-ENOMEM,
                  input_free_device(Log(k5, "input_register_device", "", 0)))
        ELSE KRet(0, k7)

\* yeeloong_hotkey_exit after its call of free_irq
yeeloong_hotkey_exit_unregister(k) ==
    IF k.yeeloong_hotkey_dev # "NULL"
    THEN [Log(k, "input_unregister_device", k.yeeloong_hotkey_dev, 0)
            EXCEPT !.yeeloong_hotkey_dev = "NULL"]
    ELSE k

yeeloong_hotkey_exit(k) == yeeloong_hotkey_exit_unregister(free_irq(k))

yeeloong_bat_exit(k) ==
    IF k.ac_bat_initialized # 0
    THEN Log([k EXCEPT !.ac_bat_initialized = 0], "power_supply_unregister", "", 0)
    ELSE k

yeeloong_init(env, k) ==
    LET h == yeeloong_hotkey_init(env, [k EXCEPT !.ac_bat_initialized = 1])
    IN  IF env.fail = "mips_machtype" THEN KRet(-ENODEV, k)
        ELSE IF env.fail = "platform_driver_register" THEN KRet(-ENOMEM, k)
        ELSE IF env.fail = "yeeloong_backlight_init"
        THEN KRet(-ENOMEM, Log(k, "yeeloong_backlight_exit", "", 0))
        ELSE IF env.fail = "yeeloong_bat_init"
        THEN KRet(-ENOMEM, yeeloong_bat_exit(k))
        ELSE IF env.fail = "yeeloong_hwmon_init"
        THEN KRet(-ENOMEM, Log([k EXCEPT !.ac_bat_initialized = 1],
                                "yeeloong_hwmon_exit", "", 0))
        ELSE IF h.ret # 0
        THEN KRet(h.ret, yeeloong_hotkey_exit(h.k))
        ELSE KRet(0, h.k)

(***************************************************************************)
(* Suspend and resume, up to the call of sci_irq_init.                     *)
(***************************************************************************)
EC_VER_PQ1D27 == VerStemUpper \o <<55>>

usb_ports_set(status, m) ==
    LET st == LogicalNot(LogicalNot(status))
    IN  ec_write("REG_USB2_FLAG", st,
            ec_write("REG_USB1_FLAG", st, ec_write("REG_USB0_FLAG", st, m)))

yeeloong_suspend(ver, m) ==
    LET m1 == IF ec_version_before(ver, EC_VER_PQ1D27)
              THEN display_vo_set(LCD, OFF, m) ELSE m
    IN  wlan_set(OFF, usb_ports_set(OFF, display_vo_set(CRT, OFF, m1)))

\* yeeloong_resume before it calls sci_irq_init
yeeloong_resume_entry(ver, m) ==
    LET m1 == IF ec_version_before(ver, EC_VER_PQ1D27)
              THEN display_vo_set(LCD, ON, m) ELSE m
    IN  wlan_set(ON, usb_ports_set(ON, display_vo_set(CRT, ON, m1)))

(***************************************************************************)
(* State.                                                                  *)
(***************************************************************************)
VARIABLES
    ac_bat_initialized,     \* set by yeeloong_bat_init
    old_brightness_status,  \* static of get_event_key_entry
    old_volume_status,      \* static of get_event_key_entry
    video_output_status,    \* static of switchvideomode_handler
    camera_control,         \* EC register REG_CAMERA_CONTROL
    sr31,                   \* sequencer register 0x31 (LCD)
    sr21,                   \* sequencer register 0x21 (CRT)
    last,                   \* the last invocation of sci_irq_handler:
                            \* [stim, ret, event, status, trace]
    nDetected,              \* history: video-toggle events seen with CRT detected
    fedBrightness,          \* history: the last raw brightness sample, -1: none
    fedVolume,              \* history: the last raw volume sample, -1: none
    th,                     \* the thread in sci_irq_init
    irqs_off,               \* local interrupts are disabled
    msr,                    \* the MSRs sci_irq_init accesses
    gpio,                   \* the GPIO ports sci_irq_init writes
    sci,                    \* the SCI interrupt line
    yeeloong_hotkey_dev,    \* driver global
    module,                 \* [state, ret, calls]: the result of yeeloong_init
    pm                      \* "on", "suspended" or "resuming"

\* the kernel side
kvars == << th, irqs_off, msr, gpio, sci, yeeloong_hotkey_dev, module, pm >>

vars == << ac_bat_initialized, old_brightness_status,
           old_volume_status, video_output_status, camera_control, sr31, sr21,
           last, nDetected, fedBrightness, fedVolume, kvars >>

\* The version string ec_kb3310b_ver is filled in by the platform code; the
\* driver only reads it, so it is an answer of the environment like the
\* registers.  "EC_VER=PQ1D2" followed by 5, 6, 7 or nothing, and
\* "ec_ver=pq1d25".
Versions ==
    { VerStemUpper \o <<53>>, VerStemUpper \o <<54>>, VerStemUpper \o <<55>>,
      VerStemUpper, VerStemLower \o <<53>> }

\* what the hardware may answer during one invocation
Irqs == {SCI_IRQ_NUM, SCI_IRQ_NUM + 1}
QueryResults == {0, -1}
EventNumbers == {0} \cup ((EVENT_START - 1) .. (EVENT_END + 1))
Samples == 0 .. MaxSample
CrtDetect == {OFF, ON}

\* the brightness and volume registers hold a level, the others a flag
RegValues(reg) ==
    IF reg \in {"REG_DISPLAY_BRIGHTNESS", "REG_AUDIO_VOLUME"} THEN Samples
    ELSE {OFF, ON}

\* the answers an invocation does not read are left at 0 in a stimulus
ReadsVal(event) == EventReg(event) \notin {"", "REG_CRT_DETECT"}
ReadsCrt(event) == event \in {EVENT_SWITCHVIDEOMODE, EVENT_CRT_DETECT}
InRange(event) == event >= EVENT_START /\ event <= EVENT_END

NoVersion == << >>

Stim(irq, query, event, val, crt, ver) ==
    [irq |-> irq, query |-> query, event |-> event, val |-> val, crt |-> crt,
     ver |-> ver]

\* another line fires; the query fails; the query succeeds and the event
\* number is e, with the answers to the reads the dispatch of e makes
Stimuli ==
    {Stim(irq, 0, 0, 0, 0, NoVersion) : irq \in Irqs \ {SCI_IRQ_NUM}}
    \cup {Stim(SCI_IRQ_NUM, q, 0, 0, 0, NoVersion) : q \in QueryResults \ {0}}
    \cup UNION {
           IF e = EVENT_DISPLAY_TOGGLE
           THEN {Stim(SCI_IRQ_NUM, 0, e, v, 0, ver) :
                    v \in RegValues(EventReg(e)), ver \in Versions}
           ELSE IF ReadsVal(e)
           THEN {Stim(SCI_IRQ_NUM, 0, e, v, 0, NoVersion) :
                    v \in RegValues(EventReg(e))}
           ELSE IF ReadsCrt(e)
           THEN {Stim(SCI_IRQ_NUM, 0, e, 0, c, NoVersion) : c \in CrtDetect}
           ELSE {Stim(SCI_IRQ_NUM, 0, e, 0, 0, NoVersion)} : e \in EventNumbers }

\* before the first interrupt
NoStimulus ==
    [irq |-> -1, query |-> 0, event |-> 0, val |-> 0, crt |-> 0, ver |-> NoVersion]

\* the registers before the driver is loaded: bit 10 of MSRs 0x80000024 and
\* 0x80000025 is set, the low bits of MSR 0x80000023 are not 0x0a, the GPIO
\* ports are clear
MsrAtBoot ==
    [a \in {"DIVIL_LBAR_GPIO", "0x80000024", "0x80000025", "0x80000023"} |->
        CASE a = "0x80000024" -> 2 ^ 10 + 1
          [] a = "0x80000025" -> 2 ^ 10
          [] a = "0x80000023" -> 1
          [] OTHER -> 0]

GpioAtBoot == [port \in {"0xA0", "0xA4", "0xB8"} |-> 0]

\* the kernel side before yeeloong_init
Boot ==
    [th |-> Idle, irqs_off |-> FALSE,
     msr |-> MsrAtBoot, gpio |-> GpioAtBoot,
     sci |-> [requested |-> FALSE, flags |-> { }, masked |-> FALSE, running |-> 0],
     yeeloong_hotkey_dev |-> "NULL", ac_bat_initialized |-> 0, trace |-> << >>]

\* what may go wrong during yeeloong_init: no step fails, the flush query
\* fails, or one of the other steps fails
LoadFailures ==
    {"mips_machtype", "platform_driver_register", "yeeloong_backlight_init",
     "yeeloong_bat_init", "yeeloong_hwmon_init", "request_threaded_irq",
     "input_allocate_device", "sparse_keymap_setup", "input_register_device"}

LoadEnv(fail, query) == [fail |-> fail, query |-> query]

LoadEnvs ==
    {LoadEnv(f, 0) : f \in LoadFailures \cup {"none"}}
    \cup {LoadEnv("none", q) : q \in QueryResults \ {0}}

\* yeeloong_init returned 0
Loaded == yeeloong_init(LoadEnv("none", 0), Boot)

\* no invocation of sci_irq_handler
NoInvocation ==
    [stim |-> NoStimulus, ret |-> "", event |-> -1, status |-> -1, trace |-> << >>]

\* the kernel side after yeeloong_init returned 0
InitLoaded ==
    /\ th = Loaded.k.th
    /\ irqs_off = Loaded.k.irqs_off
    /\ msr = Loaded.k.msr
    /\ gpio = Loaded.k.gpio
    /\ sci = Loaded.k.sci
    /\ yeeloong_hotkey_dev = Loaded.k.yeeloong_hotkey_dev
    /\ module = [state |-> "loaded", ret |-> Loaded.ret, calls |-> Loaded.k.trace]
    /\ pm = "on"

\* The statics have their initialisers (-1, -1 and 0).  At load the panel is
\* on (sequencer register 0x31 has its two low bits set), the CRT output is
\* enabled (bit 7 of register 0x21 clear) and the camera control register
\* holds 1.
Init ==
    /\ ac_bat_initialized = 1
    /\ old_brightness_status = -1
    /\ old_volume_status = -1
    /\ video_output_status = 0
    /\ camera_control = 1
    /\ sr31 = 3
    /\ sr21 = 1
    /\ last = [stim |-> NoStimulus, ret |-> "", event |-> -1, status |-> -1,
               trace |-> << >>]
    /\ nDetected = 0
    /\ fedBrightness = -1
    /\ fedVolume = -1
    /\ InitLoaded

\* the driver state at the start of an invocation that gets the answers hw
Machine(hw) ==
    [ old_brightness_status |-> old_brightness_status,
      old_volume_status     |-> old_volume_status,
      video_output_status   |-> video_output_status,
      camera_control        |-> camera_control,
      sr31                  |-> sr31,
      sr21                  |-> sr21,
      ac_bat_initialized    |-> ac_bat_initialized,
      hw                    |-> hw,
      trace                 |-> << >> ]

\* A line fires and sci_irq_handler runs to its end, the hardware answering
\* with one of the stimuli of S.
SciInterruptOn(S) ==
    \E s \in S :
      \E r \in {sci_irq_handler(s.irq, Machine(s))} :
        LET toggled == /\ r.ret = "IRQ_HANDLED"
                       /\ s.event = EVENT_SWITCHVIDEOMODE
                       /\ s.crt # OFF
        IN  /\ toggled => nDetected < MaxToggles
            /\ old_brightness_status' = r.m.old_brightness_status
            /\ old_volume_status' = r.m.old_volume_status
            /\ video_output_status' = r.m.video_output_status
            /\ camera_control' = r.m.camera_control
            /\ sr31' = r.m.sr31
            /\ sr21' = r.m.sr21
            /\ last' = [stim |-> s, ret |-> r.ret, event |-> r.event,
                        status |-> r.status, trace |-> r.m.trace]
            /\ nDetected' = IF toggled THEN nDetected + 1 ELSE nDetected
            /\ fedBrightness' =
                 IF r.ret = "IRQ_HANDLED" /\ s.event = EVENT_DISPLAY_BRIGHTNESS
                 THEN s.val ELSE fedBrightness
            /\ fedVolume' =
                 IF r.ret = "IRQ_HANDLED" /\ s.event = EVENT_AUDIO_VOLUME
                 THEN s.val ELSE fedVolume
            /\ UNCHANGED ac_bat_initialized

SciInterrupt == SciInterruptOn(Stimuli) /\ UNCHANGED kvars

Next == SciInterrupt

Spec == Init /\ [][Next]_vars

(***************************************************************************)
(* The EC raises brightness and volume events with strictly increasing     *)
(* samples on each axis (the first sample of an axis is free); every other *)
(* stimulus is as in Spec.                                                 *)
(***************************************************************************)
IncreasingStimuli ==
    { s \in Stimuli :
        /\ s.event = EVENT_DISPLAY_BRIGHTNESS => s.val > fedBrightness
        /\ s.event = EVENT_AUDIO_VOLUME => s.val > fedVolume }

SciInterruptIncreasing == SciInterruptOn(IncreasingStimuli) /\ UNCHANGED kvars

NextIncreasing == SciInterruptIncreasing

SpecIncreasing == Init /\ [][NextIncreasing]_vars

(***************************************************************************)
(* The contracts of the handlers over the globals they read.  The EC       *)
(* register REG_CAMERA_CONTROL holds any value up to MaxCameraControl at   *)
(* load, and ac_bat_initialized is 0 (yeeloong_bat_init has not set it) or *)
(* 1.  The events are those whose dispatch keeps no handler state.         *)
(***************************************************************************)
ContractStimuli ==
    { s \in Stimuli :
        s.event \notin {EVENT_SWITCHVIDEOMODE, EVENT_DISPLAY_TOGGLE,
                        EVENT_DISPLAY_BRIGHTNESS, EVENT_AUDIO_VOLUME} }

InitContract ==
    /\ ac_bat_initialized \in {0, 1}
    /\ old_brightness_status = -1
    /\ old_volume_status = -1
    /\ video_output_status = 0
    /\ camera_control \in 0 .. MaxCameraControl
    /\ sr31 = 3
    /\ sr21 = 1
    /\ last = [stim |-> NoStimulus, ret |-> "", event |-> -1, status |-> -1,
               trace |-> << >>]
    /\ nDetected = 0
    /\ fedBrightness = -1
    /\ fedVolume = -1
    /\ InitLoaded

SciInterruptContract == SciInterruptOn(ContractStimuli) /\ UNCHANGED kvars

NextContract == SciInterruptContract

SpecContract == InitContract /\ [][NextContract]_vars

(***************************************************************************)
(* Suspend and resume of the loaded driver.  yeeloong_suspend and          *)
(* yeeloong_resume run as one step each; the EC raises no event while the  *)
(* machine is suspended.                                                   *)
(***************************************************************************)
\* the kernel side as a record
Kernel ==
    [th |-> th, irqs_off |-> irqs_off, msr |-> msr, gpio |-> gpio, sci |-> sci,
     yeeloong_hotkey_dev |-> yeeloong_hotkey_dev,
     ac_bat_initialized |-> ac_bat_initialized, trace |-> << >>]

\* the driver state becomes that of the record m
SetDriver(m) ==
    /\ old_brightness_status' = m.old_brightness_status
    /\ old_volume_status' = m.old_volume_status
    /\ video_output_status' = m.video_output_status
    /\ camera_control' = m.camera_control
    /\ sr31' = m.sr31
    /\ sr21' = m.sr21

\* the history of the events
hvars == << nDetected, fedBrightness, fedVolume >>

\* the handler state and its history, the camera register
dvars == << old_brightness_status, old_volume_status, video_output_status,
            camera_control, nDetected, fedBrightness, fedVolume >>

Suspend ==
    /\ module.state = "loaded"
    /\ pm = "on"
    /\ \E ver \in Versions :
         \E m \in {yeeloong_suspend(ver, Machine(NoStimulus))} : SetDriver(m)
    /\ pm' = "suspended"
    /\ last' = NoInvocation
    /\ UNCHANGED << hvars, ac_bat_initialized, th, irqs_off, msr, gpio, sci,
                    yeeloong_hotkey_dev, module >>

Resume ==
    /\ pm = "suspended"
    /\ \E ver \in Versions, query \in QueryResults :
         \E m \in {yeeloong_resume_entry(ver, Machine(NoStimulus))} :
           \E k \in {sci_irq_init(query, Kernel)} :
             /\ SetDriver(m)
             /\ th' = Idle
             /\ irqs_off' = k.irqs_off
             /\ msr' = k.msr
             /\ gpio' = k.gpio
    /\ pm' = "on"
    /\ last' = NoInvocation
    /\ UNCHANGED << hvars, ac_bat_initialized, sci, yeeloong_hotkey_dev, module >>

SciInterruptAwake == pm = "on" /\ SciInterruptOn(Stimuli) /\ UNCHANGED kvars

NextResume == SciInterruptAwake \/ Suspend \/ Resume

SpecResume == Init /\ [][NextResume]_vars

(***************************************************************************)
(* The life of the driver from yeeloong_init on.  yeeloong_init runs as    *)
(* one step.  The SCI line delivers an interrupt when it is requested, not *)
(* masked and the local interrupts are enabled; the delivery starts an     *)
(* invocation of sci_irq_handler and, under IRQF_ONESHOT, masks the line   *)
(* until the invocation returns.  yeeloong_resume runs sci_irq_init        *)
(* statement by statement, and no other thread runs while the local        *)
(* interrupts are disabled.                                                *)
(***************************************************************************)
LifecycleStimuli ==
    { s \in Stimuli :
        /\ s.irq = SCI_IRQ_NUM
        /\ s.event \in {0, EVENT_LID, EVENT_DISPLAY_BRIGHTNESS} }

InitBoot ==
    /\ ac_bat_initialized = Boot.ac_bat_initialized
    /\ old_brightness_status = -1
    /\ old_volume_status = -1
    /\ video_output_status = 0
    /\ camera_control = 1
    /\ sr31 = 3
    /\ sr21 = 1
    /\ last = NoInvocation
    /\ nDetected = 0
    /\ fedBrightness = -1
    /\ fedVolume = -1
    /\ th = Boot.th
    /\ irqs_off = Boot.irqs_off
    /\ msr = Boot.msr
    /\ gpio = Boot.gpio
    /\ sci = Boot.sci
    /\ yeeloong_hotkey_dev = Boot.yeeloong_hotkey_dev
    /\ module = [state |-> "unloaded", ret |-> 0, calls |-> << >>]
    /\ pm = "on"

YeeloongInit ==
    /\ module.state = "unloaded"
    /\ \E env \in LoadEnvs :
         \E r \in {yeeloong_init(env, Kernel)} :
           /\ th' = r.k.th
           /\ irqs_off' = r.k.irqs_off
           /\ msr' = r.k.msr
           /\ gpio' = r.k.gpio
           /\ sci' = r.k.sci
           /\ yeeloong_hotkey_dev' = r.k.yeeloong_hotkey_dev
           /\ ac_bat_initialized' = r.k.ac_bat_initialized
           /\ module' = [state |-> IF r.ret = 0 THEN "loaded" ELSE "failed",
                          ret |-> r.ret, calls |-> r.k.trace]
    /\ last' = NoInvocation
    /\ UNCHANGED << dvars, sr31, sr21, pm >>

IrqDeliver ==
    /\ sci.requested
    /\ ~sci.masked
    /\ ~irqs_off
    /\ sci' = [sci EXCEPT !.masked = ("IRQF_ONESHOT" \in sci.flags),
                          !.running = @ + 1]
    /\ last' = NoInvocation
    /\ UNCHANGED << dvars, sr31, sr21, ac_bat_initialized, th, irqs_off, msr,
                    gpio, yeeloong_hotkey_dev, module, pm >>

HandlerReturn ==
    /\ sci.running > 0
    /\ ~irqs_off
    /\ SciInterruptOn(LifecycleStimuli)
    /\ sci' = [sci EXCEPT !.masked = FALSE, !.running = @ - 1]
    /\ UNCHANGED << th, irqs_off, msr, gpio, yeeloong_hotkey_dev, module, pm >>

ResumeEnter ==
    /\ pm = "suspended"
    /\ \E ver \in Versions, query \in QueryResults :
         \E m \in {yeeloong_resume_entry(ver, Machine(NoStimulus))} :
           /\ SetDriver(m)
           /\ th' = Entered(query)
    /\ pm' = "resuming"
    /\ last' = NoInvocation
    /\ UNCHANGED << hvars, ac_bat_initialized, irqs_off, msr, gpio, sci,
                    yeeloong_hotkey_dev, module >>

ResumeStep ==
    /\ pm = "resuming"
    /\ th.pc # 0
    /\ \E k \in {sci_irq_init_step(Kernel)} :
         /\ th' = k.th
         /\ irqs_off' = k.irqs_off
         /\ msr' = k.msr
         /\ gpio' = k.gpio
    /\ last' = NoInvocation
    /\ UNCHANGED << dvars, sr31, sr21, ac_bat_initialized, sci,
                    yeeloong_hotkey_dev, module, pm >>

ResumeReturn ==
    /\ pm = "resuming"
    /\ th.pc = 0
    /\ th' = Idle
    /\ pm' = "on"
    /\ last' = NoInvocation
    /\ UNCHANGED << dvars, sr31, sr21, ac_bat_initialized, irqs_off, msr,
                    gpio, sci, yeeloong_hotkey_dev, module >>

NextLifecycle ==
    \/ YeeloongInit
    \/ IrqDeliver
    \/ HandlerReturn
    \/ Suspend
    \/ ResumeEnter
    \/ ResumeStep
    \/ ResumeReturn

SpecLifecycle == InitBoot /\ [][NextLifecycle]_vars

(***************************************************************************)
(* Load and unload, statement by statement.  yeeloong_init runs up to the  *)
(* call of request_threaded_irq in one step (the SCI line is not requested *)
(* before); from there on each call of yeeloong_hotkey_init,               *)
(* yeeloong_hotkey_exit and yeeloong_exit is a step of its own, and the    *)
(* SCI line may deliver an interrupt between any two of them.              *)
(* module.state names the statement the loading or unloading thread        *)
(* executes next.  free_irq waits for the invocations in progress.         *)
(* sparse_keymap_entry_from_scancode reads the keymap through the device   *)
(* pointer: on a device that is NULL or has no keymap the invocation       *)
(* faults (ret "oops"); on a freed device it faults or reads the stale     *)
(* keymap.                                                                 *)
(***************************************************************************)
\* the failures of yeeloong_init before it calls yeeloong_hotkey_init
EarlyLoadFailures ==
    {"mips_machtype", "platform_driver_register", "yeeloong_backlight_init",
     "yeeloong_bat_init", "yeeloong_hwmon_init"}

\* yeeloong_hotkey_init up to the check of sci_irq_init's result
yeeloong_hotkey_init_flush(query, k) ==
    LET k1 == wlan_set(ON, k)
        a  == sci_irq_init(query, Log(k1, "sci_irq_init", "", 0))
    IN  [a EXCEPT !.trace = @ \o ThreadCalls(a.th), !.th = Idle]

\* the loading or unloading thread takes the kernel side to k and goes on at
\* the statement state
LoadTo(k, state, ret) ==
    /\ th' = k.th
    /\ irqs_off' = k.irqs_off
    /\ msr' = k.msr
    /\ gpio' = k.gpio
    /\ sci' = k.sci
    /\ yeeloong_hotkey_dev' = k.yeeloong_hotkey_dev
    /\ ac_bat_initialized' = k.ac_bat_initialized
    /\ module' = [state |-> state, ret |-> ret, calls |-> module.calls \o k.trace]
    /\ last' = NoInvocation
    /\ UNCHANGED << dvars, sr31, sr21, pm >>

\* yeeloong_init up to yeeloong_hotkey_init's call of request_threaded_irq
LoadEnter ==
    /\ module.state = "unloaded"
    /\ \/ \E f \in EarlyLoadFailures :
            \E r \in {yeeloong_init(LoadEnv(f, 0), Kernel)} :
              LoadTo(r.k, "failed", r.ret)
       \/ \E query \in QueryResults :
            \E k \in {yeeloong_hotkey_init_flush(
                         query, [Kernel EXCEPT !.ac_bat_initialized = 1])} :
              IF query # 0
              THEN LoadTo(k, "init: free_irq", -EFAULT)
              ELSE LoadTo(k, "request_threaded_irq", 0)

RequestIrq ==
    /\ module.state = "request_threaded_irq"
    /\ \E k \in {Log(Kernel, "request_threaded_irq", "SCI_IRQ_NUM", 0)} :
         \/ LoadTo([k EXCEPT !.sci = [requested |-> TRUE,
                                      flags |-> sci_irq_flags,
                                      masked |-> FALSE, running |-> 0]],
                   "input_allocate_device", 0)
         \/ LoadTo(k, "init: free_irq", -EFAULT)

AllocateDevice ==
    /\ module.state = "input_allocate_device"
    /\ \E k \in {Log(Kernel, "input_allocate_device", "", 0)} :
         \/ LoadTo([k EXCEPT !.yeeloong_hotkey_dev = "allocated"],
                   "sparse_keymap_setup", 0)
         \/ LoadTo(k, "hotkey_init: free_irq", 0)

\* free_irq on the failure of input_allocate_device
FreeIrqNoDevice ==
    /\ module.state = "hotkey_init: free_irq"
    /\ sci.running = 0
    /\ LoadTo(free_irq(Kernel), "init: free_irq", -ENOMEM)

KeymapSetup ==
    /\ module.state = "sparse_keymap_setup"
    /\ \E k \in {Log(Kernel, "sparse_keymap_setup", "", 0)} :
         \/ LoadTo([k EXCEPT !.yeeloong_hotkey_dev = "keymapped"],
                   "input_register_device", 0)
         \/ LoadTo(input_free_device(k), "init: free_irq", -ENOMEM)

RegisterDevice ==
    /\ module.state = "input_register_device"
    /\ \E k \in {Log(Kernel, "input_register_device", "", 0)} :
         \/ LoadTo([k EXCEPT !.yeeloong_hotkey_dev = "registered"],
                   "report_lid_switch", 0)
         \/ LoadTo(input_free_device(k), "init: free_irq", -ENOMEM)

\* the end of yeeloong_hotkey_init, and yeeloong_init returns 0
ReportLid ==
    /\ module.state = "report_lid_switch"
    /\ LoadTo(Log(Log(Kernel, "input_report_switch", "SW_LID", LogicalNot(ON)),
                  "input_sync", "", 0),
              "loaded", 0)

YeeloongExit ==
    /\ module.state = "loaded"
    /\ LoadTo(Kernel, "exit: free_irq", 0)

\* yeeloong_hotkey_exit, called by yeeloong_init ("init: ") after a failure
\* of yeeloong_hotkey_init and by yeeloong_exit ("exit: ")
ExitFreeIrq ==
    /\ sci.running = 0
    /\ \/ /\ module.state = "init: free_irq"
          /\ LoadTo(free_irq(Kernel), "init: input_unregister_device",
                    module.ret)
       \/ /\ module.state = "exit: free_irq"
          /\ LoadTo(free_irq(Kernel), "exit: input_unregister_device",
                    module.ret)

\* the rest of yeeloong_hotkey_exit; yeeloong_init returns the error,
\* yeeloong_exit goes on with the other subdrivers
ExitUnregister ==
    \/ /\ module.state = "init: input_unregister_device"
       /\ LoadTo(yeeloong_hotkey_exit_unregister(Kernel), "failed", module.ret)
    \/ /\ module.state = "exit: input_unregister_device"
       /\ LoadTo(Log(Log(yeeloong_bat_exit(
                           Log(yeeloong_hotkey_exit_unregister(Kernel),
                               "yeeloong_hwmon_exit", "", 0)),
                         "yeeloong_backlight_exit", "", 0),
                     "platform_driver_unregister", "", 0),
                 "exited", module.ret)

\* the device pointer leads to a keymap
KeymapSetUp(dev) == dev \in {"keymapped", "registered"}

\* the invocation with the answers s gets as far as the keymap lookup
LooksUp(s) == s.irq = SCI_IRQ_NUM /\ s.query >= 0 /\ InRange(s.event)

\* an invocation in progress runs to its end
HandlerReturnLoad ==
    /\ sci.running > 0
    /\ ~irqs_off
    /\ \E s \in LifecycleStimuli :
         /\ LooksUp(s) => KeymapSetUp(yeeloong_hotkey_dev)
                          \/ yeeloong_hotkey_dev = "freed"
         /\ SciInterruptOn({s})
    /\ sci' = [sci EXCEPT !.masked = FALSE, !.running = @ - 1]
    /\ UNCHANGED << th, irqs_off, msr, gpio, yeeloong_hotkey_dev, module, pm >>

\* an invocation in progress faults in the keymap lookup: its thread dies
\* and the line stays masked
HandlerOops ==
    /\ sci.running > 0
    /\ ~irqs_off
    /\ ~KeymapSetUp(yeeloong_hotkey_dev)
    /\ \E s \in {x \in LifecycleStimuli : LooksUp(x)} :
         last' = [stim |-> s, ret |-> "oops", event |-> s.event,
                  status |-> -1, trace |-> << >>]
    /\ sci' = [sci EXCEPT !.running = @ - 1]
    /\ UNCHANGED << dvars, sr31, sr21, ac_bat_initialized, th, irqs_off, msr,
                    gpio, yeeloong_hotkey_dev, module, pm >>

NextLoad ==
    \/ LoadEnter
    \/ RequestIrq
    \/ AllocateDevice
    \/ FreeIrqNoDevice
    \/ KeymapSetup
    \/ RegisterDevice
    \/ ReportLid
    \/ YeeloongExit
    \/ ExitFreeIrq
    \/ ExitUnregister
    \/ IrqDeliver
    \/ HandlerReturnLoad
    \/ HandlerOops

SpecLoad == InitBoot /\ [][NextLoad]_vars

(***************************************************************************)
(* display_vo_set on its own.  The sequencer data port reads back the last *)
(* value written.  Before the call the registers hold any low bits up to   *)
(* MaxSequencerLow, and register 0x21 holds bit 7 set or clear.            *)
(***************************************************************************)
SequencerValues(addr) ==
    IF addr = "0x31" THEN 0 .. MaxSequencerLow
    ELSE {b * (2 ^ 7) + v : b \in {0, 1}, v \in 0 .. MaxSequencerLow}

InitVo ==
    /\ ac_bat_initialized = 1
    /\ old_brightness_status = -1
    /\ old_volume_status = -1
    /\ video_output_status = 0
    /\ camera_control = 1
    /\ sr31 \in SequencerValues("0x31")
    /\ sr21 \in SequencerValues("0x21")
    /\ last = NoInvocation
    /\ nDetected = 0
    /\ fedBrightness = -1
    /\ fedVolume = -1
    /\ InitLoaded

\* one call of display_vo_set; last.trace records the call
DisplayVoSet ==
    /\ \E display \in {LCD, CRT}, on \in {OFF, ON} :
         \E m \in {display_vo_set(display, on, Machine(NoStimulus))} :
           /\ SetDriver(m)
           /\ last' = [NoInvocation EXCEPT !.trace = m.trace]
    /\ UNCHANGED << hvars, ac_bat_initialized, kvars >>

NextVo == DisplayVoSet

SpecVo == InitVo /\ [][NextVo]_vars

(***************************************************************************)
(* What the last invocation did, read off its trace.                       *)
(***************************************************************************)
Calls(op) == SelectSeq(last.trace, LAMBDA c : c.op = op)

Handled == last.ret = "IRQ_HANDLED"

NotHandled == last.ret = "IRQ_NONE"

QueryCall(result) == Call("ec_query_event_num", "", result)

GetEventCall(event) == Call("ec_get_event_num", "", event)

\* the calls that reach the input layer, the display or the power supplies
Reports == SelectSeq(last.trace, LAMBDA c : c.op \in
               {"input_report_key", "input_report_switch", "input_sync",
                "display_vo_set", "power_supply_changed"})

\* the handler state
HandlerState == << old_brightness_status, old_volume_status, video_output_status >>

\* everything the driver can change
DriverState == << HandlerState, camera_control, sr31, sr21 >>

\* the last invocation dispatched the event
Dispatched(event) == Handled /\ last.stim.event = event

(***************************************************************************)
(* The interrupt entry point.                                              *)
(***************************************************************************)
\* the last invocation read an event number outside [EVENT_START, EVENT_END]
OutOfRangeRead ==
    /\ Len(Calls("ec_get_event_num")) > 0
    /\ ~InRange(Calls("ec_get_event_num")[1].val)

\* C1: an invocation that reads an event number outside [EVENT_START,
\* EVENT_END] returns IRQ_NONE after the query and the read of the number
\* alone: no do_event_action, no EC register read, no handler, no report, and
\* the handler state and the registers the driver writes are unchanged.
C1_OutOfRangeIsNoOp ==
    [][ OutOfRangeRead' =>
          /\ NotHandled'
          /\ last'.trace = << QueryCall(last'.stim.query),
                              GetEventCall(last'.stim.event) >>
          /\ UNCHANGED DriverState ]_vars

\* an out-of-range event number arrived after the handler state was set
C1_Witness ==
    /\ OutOfRangeRead
    /\ last.stim.event > EVENT_END
    /\ old_brightness_status >= 0
    /\ video_output_status > 0

\* the last invocation was for another interrupt line
ForeignIrq == last.stim.irq # SCI_IRQ_NUM /\ last.ret # ""

\* C2: an invocation with irq # SCI_IRQ_NUM returns IRQ_NONE without any call
\* (no query, no read of the event number, no dispatch) and changes nothing.
C2_ForeignIrqIsNoOp ==
    [][ ForeignIrq' =>
          /\ NotHandled'
          /\ last'.trace = << >>
          /\ UNCHANGED DriverState ]_vars

C2_Witness == ForeignIrq /\ old_volume_status >= 0 /\ video_output_status > 0

\* the query of the last invocation failed
QueryFailed == last.stim.irq = SCI_IRQ_NUM /\ last.stim.query < 0

\* C3: when ec_query_event_num fails the invocation returns IRQ_NONE, having
\* issued exactly that one query and nothing else, and changes nothing.
C3_QueryFailureNoRetry ==
    [][ QueryFailed' =>
          /\ NotHandled'
          /\ Len(Calls("ec_query_event_num"))' = 1
          /\ last'.trace = << QueryCall(last'.stim.query) >>
          /\ UNCHANGED DriverState ]_vars

C3_Witness == QueryFailed /\ old_brightness_status >= 0

\* C4: IRQ_HANDLED is returned exactly when the irq is SCI_IRQ_NUM, the query
\* succeeded and the event number is in range; the invocation then starts
\* with the query, the read of the event number and do_event_action, each of
\* them made once, and the final status is that of the dispatch.
C4_HandledIffDispatched ==
    /\ last.ret # "" =>
         (Handled <=> /\ last.stim.irq = SCI_IRQ_NUM
                      /\ last.stim.query >= 0
                      /\ InRange(last.stim.event))
    /\ Handled =>
         /\ Len(last.trace) >= 3
         /\ SubSeq(last.trace, 1, 3) =
              << QueryCall(last.stim.query), GetEventCall(last.stim.event),
                 Call("do_event_action", "", last.stim.event) >>
         /\ Len(Calls("ec_query_event_num")) = 1
         /\ Len(Calls("ec_get_event_num")) = 1
         /\ Len(Calls("do_event_action")) = 1
         /\ last.event = last.stim.event
    /\ NotHandled => Len(Calls("do_event_action")) = 0

\* both ends of the range were dispatched
C4_Witness == Dispatched(EVENT_END) /\ Len(last.trace) = 3

(***************************************************************************)
(* The external-video toggle.                                              *)
(***************************************************************************)
VoCalls == Calls("display_vo_set")

VoSet(lcd_status, crt_status) ==
    << Call("display_vo_set", "LCD", lcd_status),
       Call("display_vo_set", "CRT", crt_status) >>

\* the last invocation dispatched the video toggle and found the CRT absent
ToggleWithoutCrt == Dispatched(EVENT_SWITCHVIDEOMODE) /\ last.stim.crt = OFF

\* ... and found the CRT present
ToggleWithCrt == Dispatched(EVENT_SWITCHVIDEOMODE) /\ last.stim.crt # OFF

\* C5: a video-toggle event dispatched while REG_CRT_DETECT reads OFF leaves
\* video_output_status as it was and makes no display_vo_set call; the
\* sequencer registers keep their values.
C5_ToggleWithoutCrtIsIgnored ==
    [][ ToggleWithoutCrt' =>
          /\ video_output_status' = video_output_status
          /\ Len(VoCalls)' = 0
          /\ UNCHANGED << sr31, sr21 >> ]_vars

C5_Witness == ToggleWithoutCrt /\ video_output_status = 2

\* the (LCD, CRT) pairs in the order both-on, crt-only, both-off, lcd-only
TogglePairs == << VoSet(ON, ON), VoSet(OFF, ON), VoSet(OFF, OFF), VoSet(ON, OFF) >>

\* C6: counted from driver load, the k-th video-toggle event with the CRT
\* detected applies the pair at position ((k-1) mod 4)+1 of both-on, crt-only,
\* both-off, lcd-only, whatever events came in between.
C6_ToggleCycle ==
    ToggleWithCrt =>
        /\ nDetected >= 1
        /\ VoCalls = TogglePairs[((nDetected - 1) % 4) + 1]

\* the fifth CRT-detected toggle applies both-on again
C6_Witness == ToggleWithCrt /\ nDetected = 5 /\ VoCalls = VoSet(ON, ON)

(***************************************************************************)
(* Brightness and volume: the direction of an event.                       *)
(***************************************************************************)
\* the keys the last invocation reported as pressed
KeyPresses ==
    SelectSeq(last.trace, LAMBDA c : c.op = "input_report_key" /\ c.val = 1)

Pressed(key) == KeyPresses = << Call("input_report_key", key, 1) >>

\* C7 as stated: with strictly increasing samples on an axis, every event of
\* the axis reports the 'increase' key.
C7_IncreasingAlwaysUp ==
    /\ Dispatched(EVENT_DISPLAY_BRIGHTNESS) => Pressed("KEY_BRIGHTNESSUP")
    /\ Dispatched(EVENT_AUDIO_VOLUME) => Pressed("KEY_VOLUMEUP")

\* C7, amended: with strictly increasing samples on an axis, every event of
\* the axis with a non-zero sample reports the 'increase' key; a sample of 0
\* (it can only be the first one) reports the 'decrease' key.
C7_IncreasingUpUnlessZero ==
    /\ Dispatched(EVENT_DISPLAY_BRIGHTNESS) =>
         IF last.stim.val # 0 THEN Pressed("KEY_BRIGHTNESSUP")
                              ELSE Pressed("KEY_BRIGHTNESSDOWN")
    /\ Dispatched(EVENT_AUDIO_VOLUME) =>
         IF last.stim.val # 0 THEN Pressed("KEY_VOLUMEUP")
                              ELSE Pressed("KEY_VOLUMEDOWN")

\* the second sample of an increasing brightness sequence, after volume events
C7_Witness ==
    /\ Dispatched(EVENT_DISPLAY_BRIGHTNESS)
    /\ last.stim.val = MaxSample
    /\ fedVolume = MaxSample
    /\ Pressed("KEY_BRIGHTNESSUP")

\* C8: an event of an axis reports the 'decrease' key exactly when its sample
\* is 0 or less than the stored last sample of that axis, and the 'increase'
\* key otherwise; afterwards the stored last sample is the raw sample.
C8_DirectionAndStore ==
    [][ /\ Dispatched(EVENT_DISPLAY_BRIGHTNESS)' =>
             /\ IF last'.stim.val = 0 \/ last'.stim.val < old_brightness_status
                THEN Pressed("KEY_BRIGHTNESSDOWN")'
                ELSE Pressed("KEY_BRIGHTNESSUP")'
             /\ old_brightness_status' = last'.stim.val
        /\ Dispatched(EVENT_AUDIO_VOLUME)' =>
             /\ IF last'.stim.val = 0 \/ last'.stim.val < old_volume_status
                THEN Pressed("KEY_VOLUMEDOWN")'
                ELSE Pressed("KEY_VOLUMEUP")'
             /\ old_volume_status' = last'.stim.val ]_vars

\* a sample of 0 arrived first on the volume axis and was a decrease
C8_Witness ==
    /\ Dispatched(EVENT_AUDIO_VOLUME)
    /\ last.stim.val = 0
    /\ Pressed("KEY_VOLUMEDOWN")
    /\ old_volume_status = 0
    /\ old_brightness_status = MaxSample

(***************************************************************************)
(* The lid switch.                                                         *)
(***************************************************************************)
\* C9: a lid event reports SW_LID once, false for the raw value 1 and true for
\* the raw value 0, followed by one input_sync, and reports no key.
C9_LidInverted ==
    Dispatched(EVENT_LID) =>
        /\ last.stim.val = 1 =>
             Reports = << Call("input_report_switch", "SW_LID", 0),
                          Call("input_sync", "", 0) >>
        /\ last.stim.val = 0 =>
             Reports = << Call("input_report_switch", "SW_LID", 1),
                          Call("input_sync", "", 0) >>
        /\ last.stim.val \in {0, 1}

C9_Witness == Dispatched(EVENT_LID) /\ last.stim.val = 1 /\ Len(Reports) = 2

(***************************************************************************)
(* The display toggle and the firmware version.                            *)
(***************************************************************************)
Fold(s) == [i \in 1 .. Len(s) |-> tolower(s[i])]

Prefix(s, n) == SubSeq(s, 1, IF Len(s) < n THEN Len(s) ELSE n)

\* a comes strictly before b in lexicographic order
LexLess(a, b) ==
    \E i \in 1 .. Len(b) :
        /\ \A j \in 1 .. (i - 1) : j <= Len(a) /\ a[j] = b[j]
        /\ i > Len(a) \/ a[i] < b[i]

\* C10: a display-toggle event calls display_vo_set(LCD, status) exactly when
\* the first 64 characters of the version string, letter case ignored, come
\* strictly before "EC_VER=PQ1D26", and no display call is made otherwise;
\* the final status is the value read from REG_DISPLAY_LCD.
C10_DisplayToggleByVersion ==
    Dispatched(EVENT_DISPLAY_TOGGLE) =>
        /\ VoCalls =
             IF LexLess(Fold(Prefix(last.stim.ver, 64)),
                        Fold(Prefix(EC_VER_PQ1D26, 64)))
             THEN << Call("display_vo_set", "LCD", last.stim.val) >>
             ELSE << >>
        /\ last.status = last.stim.val

\* "ec_ver=pq1d25" is before the threshold and the LCD was switched
C10_Witness ==
    /\ Dispatched(EVENT_DISPLAY_TOGGLE)
    /\ last.stim.ver = VerStemLower \o <<53>>
    /\ last.stim.val = OFF
    /\ Len(VoCalls) = 1

(***************************************************************************)
(* The camera handler.                                                     *)
(***************************************************************************)
\* the entry the dispatch logs when it calls the handler
HandlerCall(handler, status) == Call("handler", handler, status)

\* v with bit 1 set and every other bit as it was
WithBit1(v) == IF (v \div 2) % 2 = 1 THEN v ELSE v + 2

\* C11: every dispatch of EVENT_CAMERA, whatever the status read and whatever
\* REG_CAMERA_CONTROL held, writes REG_CAMERA_CONTROL exactly once, with the
\* previous value and bit 1 set and the other bits preserved, writes no other
\* EC register, and the handler returns the status it was given.
C11_CameraAlwaysWrites ==
    [][ Dispatched(EVENT_CAMERA)' =>
          /\ Calls("ec_write")' =
                << Call("ec_write", "REG_CAMERA_CONTROL", WithBit1(camera_control)) >>
          /\ camera_control' = WithBit1(camera_control)
          /\ Calls("handler")' =
                << HandlerCall("camera_handler", last'.stim.val) >>
          /\ last'.status = last'.stim.val ]_vars

\* the camera event was dispatched with status 0 while the register held
\* MaxCameraControl, bit 1 and other bits set
C11_Witness ==
    /\ Dispatched(EVENT_CAMERA)
    /\ last.stim.val = 0
    /\ camera_control = MaxCameraControl
    /\ Calls("ec_read")[2].val = MaxCameraControl

(***************************************************************************)
(* The AC/battery event.                                                   *)
(***************************************************************************)
\* the SCI line fired, the query succeeded and the event number was event
Fired(event) ==
    /\ last.stim.irq = SCI_IRQ_NUM
    /\ last.stim.query >= 0
    /\ last.stim.event = event

\* the calls of the last invocation into the input layer
InputReports == SelectSeq(last.trace, LAMBDA c : c.op \in
                    {"input_report_key", "input_report_switch", "input_sync"})

\* the power supplies the last invocation notified, in order
Notified == [i \in 1 .. Len(Calls("power_supply_changed")) |->
                Calls("power_supply_changed")[i].arg]

\* C12: when the SCI line fires, the query succeeds and the event number is
\* EVENT_AC_BAT, the invocation returns IRQ_HANDLED and reports nothing to
\* the input layer; with ac_bat_initialized set it calls power_supply_changed
\* once for yeeloong_ac and once for yeeloong_bat, in either order, and with
\* ac_bat_initialized clear it does not call it.
C12_AcBatNotifiesBoth ==
    Fired(EVENT_AC_BAT) =>
        /\ Handled
        /\ InputReports = << >>
        /\ ac_bat_initialized # 0 =>
              Notified \in { << "yeeloong_ac", "yeeloong_bat" >>,
                             << "yeeloong_bat", "yeeloong_ac" >> }
        /\ ac_bat_initialized = 0 => Notified = << >>

\* both power supplies were notified by an AC/battery event
C12_Witness ==
    /\ Fired(EVENT_AC_BAT)
    /\ ac_bat_initialized = 1
    /\ Len(Notified) = 2

(***************************************************************************)
(* The status a dispatch ends with.                                        *)
(***************************************************************************)
\* what the EC answers to the read of the register bound to the event
Answer(reg) ==
    IF reg = "REG_CRT_DETECT" THEN last.stim.crt ELSE last.stim.val

\* the calls the last invocation made inside do_event_action
DispatchCalls == SubSeq(last.trace, 4, Len(last.trace))

\* the accesses of the last invocation to the EC registers
EcAccesses == SelectSeq(last.trace, LAMBDA c : c.op \in {"ec_read", "ec_write"})

\* what the handler returns for the status it is given
HandlerResult(handler, status) ==
    IF handler = "switchvideomode_handler"
    THEN IF last.stim.crt = OFF THEN 0 ELSE video_output_status
    ELSE status

\* C13: for a dispatched event, rawStatus is the value read from the register
\* bound to the event, or 0 without a register; the final status is what the
\* bound handler returns for rawStatus, or rawStatus without a handler.  The
\* bound register is read once, as the first step and before the handler is
\* called, and an event without register and handler ends with status 0 and
\* no access to the EC.
C13_FinalStatus ==
    Handled =>
        LET reg     == EventReg(last.stim.event)
            handler == EventHandler(last.stim.event)
            raw     == IF reg = "" THEN 0 ELSE Answer(reg)
            rest    == IF reg = "" THEN DispatchCalls ELSE Tail(DispatchCalls)
        IN  /\ reg # "" =>
                  /\ DispatchCalls # << >>
                  /\ DispatchCalls[1] = Call("ec_read", reg, raw)
                  /\ Len(SelectSeq(last.trace, LAMBDA c : c.arg = reg)) = 1
            /\ handler # "" =>
                  /\ rest # << >>
                  /\ rest[1] = HandlerCall(handler, raw)
                  /\ Len(Calls("handler")) = 1
                  /\ last.status = HandlerResult(handler, raw)
            /\ handler = "" =>
                  /\ Calls("handler") = << >>
                  /\ last.status = raw
            /\ (reg = "" /\ handler = "") =>
                  /\ last.status = 0
                  /\ EcAccesses = << >>

\* an event with a register and a handler was dispatched with the register
\* holding 1
C13_Witness ==
    /\ Dispatched(EVENT_USB_OC2)
    /\ DispatchCalls[1] = Call("ec_read", "REG_USB2_FLAG", 1)
    /\ DispatchCalls[2] = HandlerCall("usb2_handler", 1)
    /\ last.status = 1

(***************************************************************************)
(* Events without keymap entry.                                            *)
(***************************************************************************)
\* no entry of yeeloong_keymap before KE_END carries the event number
NoKeymapEntry(event) ==
    \A i \in 1 .. Len(yeeloong_keymap) :
        yeeloong_keymap[i].type # "KE_END" => yeeloong_keymap[i].code # event

\* C14: when the SCI line fires, the query succeeds and the event number is
\* in [EVENT_START, EVENT_END] but in no keymap entry, the invocation returns
\* IRQ_HANDLED, calls neither input_report_switch nor input_report_key nor
\* input_sync, and leaves old_brightness_status and old_volume_status as
\* they were.
C14_NoEntryNoReport ==
    [][ ( /\ last'.stim.irq = SCI_IRQ_NUM
          /\ last'.stim.query >= 0
          /\ InRange(last'.stim.event)
          /\ NoKeymapEntry(last'.stim.event) ) =>
          /\ Handled'
          /\ InputReports' = << >>
          /\ UNCHANGED << old_brightness_status, old_volume_status >> ]_vars

\* a USB over-current event was dispatched after both last samples were set
C14_Witness ==
    /\ Dispatched(EVENT_USB_OC0)
    /\ NoKeymapEntry(EVENT_USB_OC0)
    /\ InputReports = << >>
    /\ old_brightness_status >= 0
    /\ old_volume_status >= 0

(***************************************************************************)
(* The range of the external-video toggle position.                        *)
(***************************************************************************)
\* the position in 1 .. 4 in every state, the state after load included
C15_ToggleRangeFromLoad == video_output_status \in 1 .. 4

\* C15: video_output_status is 0 from load until the first video-toggle
\* event with the CRT detected and in 1 .. 4 from then on, so it is in 0 .. 4
\* in every reachable state; a video-toggle event with the CRT detected
\* moves it one position up, from 4 to 1, and nothing else changes it.
C15_ToggleRangeAfterFirst ==
    [][ /\ video_output_status \in 0 .. 4
        /\ video_output_status = 0 <=> nDetected = 0
        /\ video_output_status' \in 0 .. 4
        /\ video_output_status' = 0 <=> nDetected' = 0
        /\ video_output_status' =
              IF ToggleWithCrt'
              THEN IF video_output_status = 4 THEN 1 ELSE video_output_status + 1
              ELSE video_output_status ]_vars

\* the fifth video-toggle event with the CRT detected wrapped the position
C15_Witness ==
    /\ ToggleWithCrt
    /\ nDetected = 5
    /\ video_output_status = 1

(***************************************************************************)
(* The load of the driver.                                                 *)
(***************************************************************************)
\* the calls of yeeloong_init with the name op
LoadCalls(op) == SelectSeq(module.calls, LAMBDA c : c.op = op)

\* yeeloong_init has run and the flush query of sci_irq_init failed
FlushQueryFailed ==
    /\ module.state # "unloaded"
    /\ \E i \in 1 .. Len(module.calls) :
         module.calls[i].op = "ec_query_event_num" /\ module.calls[i].val # 0

\* C16: when the flush query of sci_irq_init fails during the load, no MSR
\* and no GPIO port is written (the registers keep their values), the SCI
\* IRQ is not requested, no input device is allocated or registered, and
\* yeeloong_init returns an error.
C16_FlushFailureAbortsLoad ==
    FlushQueryFailed =>
        /\ LoadCalls("_wrmsr") = << >>
        /\ LoadCalls("outl") = << >>
        /\ msr = MsrAtBoot
        /\ gpio = GpioAtBoot
        /\ LoadCalls("request_threaded_irq") = << >>
        /\ ~sci.requested
        /\ LoadCalls("input_allocate_device") = << >>
        /\ LoadCalls("input_register_device") = << >>
        /\ yeeloong_hotkey_dev = "NULL"
        /\ module.ret < 0
        /\ module.state = "failed"

\* the load failed with -EFAULT after the flush query failed
C16_Witness ==
    /\ FlushQueryFailed
    /\ module.state = "failed"
    /\ module.ret = -EFAULT
    /\ Len(LoadCalls("ec_query_event_num")) = 1

(***************************************************************************)
(* Serialisation of the interrupt handler.                                 *)
(***************************************************************************)
\* C17: at most one invocation of sci_irq_handler is in progress at any
\* time, and the SCI line is masked exactly while one is: it is masked at
\* the delivery that starts the invocation and unmasked when the invocation
\* returns, so no second invocation starts before the first has returned.
C17_OneInvocationAtATime ==
    /\ sci.running \in {0, 1}
    /\ sci.masked <=> sci.running = 1
    /\ sci.running = 1 => sci.requested /\ "IRQF_ONESHOT" \in sci.flags

\* an invocation is in progress, the line masked, after an earlier
\* invocation has stored a brightness sample
C17_Witness ==
    /\ sci.running = 1
    /\ sci.masked
    /\ old_brightness_status >= 0

(***************************************************************************)
(* The critical section of sci_irq_init.                                   *)
(***************************************************************************)
\* the current run of sci_irq_init has executed the statement
Executed(op, arg) == \E i \in 1 .. Len(th.log) : th.log[i] = Stmt(op, arg)

\* the first of the three MSRs has been read and the last is not yet written
InRmw ==
    /\ th.pc # 0
    /\ Executed("_rdmsr", "0x80000024")
    /\ ~Executed("_wrmsr", "0x80000023")

\* the step executes an outl of sci_irq_init
OutlStep ==
    /\ Len(th'.log) = Len(th.log) + 1
    /\ th'.log[Len(th'.log)].op = "outl"

\* C18: from the read of MSR 0x80000024 to the write of MSR 0x80000023 the
\* local interrupts are disabled and no step of an interrupt handler
\* invocation (delivery, execution, return) takes place; outside
\* sci_irq_init, after either return, the local interrupts are enabled
\* again; and every GPIO port write comes after the three MSR writes and
\* after local_irq_restore, with the local interrupts enabled.
C18_MsrCriticalSection ==
    [][ /\ InRmw => /\ irqs_off
                    /\ sci' = sci
                    /\ last'.ret = ""
                    /\ UNCHANGED HandlerState
        /\ InRmw' => irqs_off'
        /\ th'.pc = 0 => ~irqs_off'
        /\ OutlStep => /\ ~irqs_off
                       /\ Executed("_wrmsr", "0x80000024")
                       /\ Executed("_wrmsr", "0x80000025")
                       /\ Executed("_wrmsr", "0x80000023")
                       /\ Executed("local_irq_restore", "") ]_vars

\* sci_irq_init is between its MSR accesses while an invocation of the
\* handler that started before the critical section has not returned
C18_Witness ==
    /\ InRmw
    /\ Executed("_wrmsr", "0x80000025")
    /\ irqs_off
    /\ sci.running = 1

(***************************************************************************)
(* The notifications of one invocation.                                    *)
(***************************************************************************)
\* the notifications the last invocation emitted: switch reports, key
\* press-and-release reports (counted at the press) and power-supply
\* notifications
Notifications ==
    SelectSeq(last.trace, LAMBDA c :
        \/ c.op = "input_report_switch"
        \/ c.op = "input_report_key" /\ c.val = 1
        \/ c.op = "power_supply_changed")

\* at most one notification per invocation, whatever the event
C19_AtMostOneNotification == Len(Notifications) <= 1

\* C19: an invocation emits no notification or one, except the dispatch of
\* EVENT_AC_BAT with ac_bat_initialized set, which emits two: one
\* power_supply_changed for the AC supply and one for the battery, and no
\* report to the input layer.  An invocation that is not handled emits none.
C19_OneNotificationButAcBat ==
    /\ (Dispatched(EVENT_AC_BAT) /\ ac_bat_initialized # 0) =>
          /\ Len(Notifications) = 2
          /\ {Notifications[1].arg, Notifications[2].arg} =
                {"yeeloong_ac", "yeeloong_bat"}
          /\ InputReports = << >>
    /\ ~(Dispatched(EVENT_AC_BAT) /\ ac_bat_initialized # 0) =>
          Len(Notifications) <= 1
    /\ ~Handled => Notifications = << >>

\* an AC/battery event emitted its two notifications after a volume event
\* had emitted one
C19_Witness ==
    /\ Dispatched(EVENT_AC_BAT)
    /\ Len(Notifications) = 2
    /\ fedVolume >= 0

(***************************************************************************)
(* The owner of each piece of handler state.                               *)
(***************************************************************************)
\* C20: old_brightness_status is changed only by the dispatch of a
\* brightness event, old_volume_status only by the dispatch of a volume
\* event and video_output_status only by the dispatch of a video-toggle
\* event: every other event, an invocation that is not handled, and
\* yeeloong_suspend and yeeloong_resume (with the run of sci_irq_init, the
\* flush query failing or not) leave all three as they were.
C20_OwnStateOnly ==
    [][ /\ old_brightness_status' # old_brightness_status =>
              Dispatched(EVENT_DISPLAY_BRIGHTNESS)'
        /\ old_volume_status' # old_volume_status =>
              Dispatched(EVENT_AUDIO_VOLUME)'
        /\ video_output_status' # video_output_status =>
              Dispatched(EVENT_SWITCHVIDEOMODE)'
        /\ last'.stim.event \notin {EVENT_DISPLAY_BRIGHTNESS, EVENT_AUDIO_VOLUME,
                                    EVENT_SWITCHVIDEOMODE} =>
              UNCHANGED HandlerState
        /\ pm' # pm => UNCHANGED HandlerState ]_vars

\* the driver was resumed with all three pieces of handler state set
C20_Witness ==
    /\ pm = "on"
    /\ last = NoInvocation
    /\ old_brightness_status >= 0
    /\ old_volume_status >= 0
    /\ video_output_status > 0

(***************************************************************************)
(* Load and unload against the interrupt (SpecLoad).                       *)
(***************************************************************************)
\* the last step was an invocation that got as far as the keymap lookup
LookedUp == last.ret # "" /\ LooksUp(last.stim)

\* the calls op made by the load and the unload so far
ModuleCalls(op) == SelectSeq(module.calls, LAMBDA c : c.op = op)

\* C21: while the SCI line is requested, from the success of
\* request_threaded_irq until free_irq returns, yeeloong_hotkey_dev is
\* allocated and has its keymap set up, and so no invocation of
\* sci_irq_handler looks up a key entry on a device that is NULL, has no
\* keymap yet or was freed, whatever the interleaving of the interrupt with
\* yeeloong_hotkey_init and yeeloong_hotkey_exit.
C21_LookupOnReadyDevice ==
    /\ sci.requested => KeymapSetUp(yeeloong_hotkey_dev)
    /\ LookedUp => KeymapSetUp(yeeloong_hotkey_dev)

\* C22: on every path through load and unload, the failure paths of
\* yeeloong_hotkey_init followed by yeeloong_init's yeeloong_hotkey_exit
\* included, free_irq is called exactly once for each successful
\* request_threaded_irq (each call frees a requested line, and no request is
\* left when the load has failed or the unload is over) and never on a line
\* that is not requested, and the input device is neither unregistered nor
\* used for a lookup after input_free_device freed it.
C22_BalancedCleanup ==
    /\ \A i \in DOMAIN ModuleCalls("free_irq") :
         ModuleCalls("free_irq")[i].val = 1
    /\ module.state \in {"failed", "exited"} => ~sci.requested
    /\ \A i \in DOMAIN ModuleCalls("input_unregister_device") :
         ModuleCalls("input_unregister_device")[i].arg # "freed"
    /\ LookedUp => yeeloong_hotkey_dev # "freed"

(***************************************************************************)
(* The key of the video-toggle event.                                      *)
(***************************************************************************)
\* one press and release of KEY_SWITCHVIDEOMODE, each followed by a sync
ToggleKeyReport ==
    << Call("input_report_key", "KEY_SWITCHVIDEOMODE", 1),
       Call("input_sync", "", 0),
       Call("input_report_key", "KEY_SWITCHVIDEOMODE", 0),
       Call("input_sync", "", 0) >>

VoCall(display, on) ==
    last.trace = << Call("display_vo_set",
                         IF display = LCD THEN "LCD" ELSE "CRT", on) >>

\* C24: with the data port reading back the last value written, after
\* display_vo_set(LCD, on) the two low bits of register 0x31 are 0x03 for on
\* and 0x02 for off whatever the register held before, so that LCD off after
\* LCD on leaves a value different from the on state; after
\* display_vo_set(CRT, on) bit 7 of register 0x21 is clear for on and set for
\* off, and the other bits are as before.
C24_VoSetDeterminesBits ==
    [][ /\ VoCall(LCD, ON)' => sr31' % 4 = 3
        /\ VoCall(LCD, OFF)' => sr31' % 4 = 2
        /\ VoCall(LCD, ON) /\ VoCall(LCD, OFF)' => sr31' # sr31
        /\ VoCall(CRT, ON)' =>
             /\ Bit(sr21', 7) = 0
             /\ clear_bit(7, sr21') = clear_bit(7, sr21)
        /\ VoCall(CRT, OFF)' =>
             /\ Bit(sr21', 7) = 1
             /\ clear_bit(7, sr21') = clear_bit(7, sr21) ]_vars

============================================================================
